---------------------------- MODULE Spec2Model ----------------------------
(***************************************************************************)
(* A model of the header/segment layer of the JPEG decoder:                *)
(*   - the primitive readers            (src/src/jpeg/util.rs)             *)
(*   - the marker scanner               (src/src/jpeg/marker.rs)           *)
(*   - the canonical Huffman tree builder (src/src/jpeg/huffman_tree.rs)   *)
(*   - the segment parsers and the decode orchestrator                     *)
(*                                      (src/src/jpeg/decoder.rs)          *)
(*                                                                         *)
(* Bytes are the integers 0..255.  Option<T> is a sequence: None is <<>>   *)
(* and Some(x) is <<x>>.  Arena indices are 0-based as in the source; the  *)
(* node with index i is element i + 1 of the sequence `nodes`.             *)
(*                                                                         *)
(* The source fixes the number of Huffman code lengths at 16, which makes  *)
(* the arena of a sparse table hold up to 2^17 - 1 nodes.  The model keeps *)
(* the algorithm and scales that number down to CodeLengths: a raw table   *)
(* has CodeLengths slots, a DHT record has CodeLengths count bytes and the *)
(* builder runs over the lengths 1..CodeLengths.                           *)
(***************************************************************************)
EXTENDS Integers, Sequences, FiniteSets, TLC

(***************************************************************************)
(* Bounds of the model.                                                    *)
(***************************************************************************)
\* Number of code lengths of a raw Huffman table (16 in the source).
CodeLengths == 3
\* Largest number of symbols one slot of a generated raw table holds.
MaxCount == 4
\* Largest number of chunks (markers, segments, stray bytes) the byte source
\* supplies, the well-formed stream apart, which it supplies whole.
MaxChunks == 3
\* Largest number of bytes of a chunk the source supplies when it ends inside
\* the chunk (its last byte apart).
MaxCut == 10
\* Largest number of stray bytes before, and of 0xFF bytes in front of, the
\* marker code of a stream given to the marker scanner alone.
MaxJunk == 2
MaxFill == 3

None == <<>>
Some(x) == <<x>>
IsNone(o) == o = <<>>
Unwrap(o) == o[1]

Min(a, b) == IF a < b THEN a ELSE b

(***************************************************************************)
(* huffman_tree.rs: HuffmanNode and HuffmanTree                            *)
(***************************************************************************)

\* HuffmanNode::new
NewNode ==
    [value |-> 0, parent |-> None, left_child |-> None,
     right_child |-> None, valid_code |-> FALSE]

\* HuffmanNode::new_with_parent
NewNodeWithParent(parent) ==
    [value |-> 0, parent |-> Some(parent), left_child |-> None,
     right_child |-> None, valid_code |-> FALSE]

\* self.nodes[i]
NodeAt(nodes, i) == nodes[i + 1]

\* HuffmanTree::add_empty_childs
AddEmptyChilds(nodes, node_index) ==
    LET left_node_index == Len(nodes)
        pushed1 == Append(nodes, NewNodeWithParent(node_index))
        right_node_index == Len(pushed1)
        pushed2 == Append(pushed1, NewNodeWithParent(node_index))
    IN  [pushed2 EXCEPT ![node_index + 1].left_child = Some(left_node_index),
                        ![node_index + 1].right_child = Some(right_node_index)]

\* HuffmanTree::symbol_count_of_length: the slot's length cast to u8
SymbolCountOfLength(huffman_table, length) ==
    Len(huffman_table[length]) % 256

\* The loop of get_right_node_on_same_level that walks up while the current
\* node is its parent's right child.  Yields the node reached and the number
\* of levels climbed, or found = FALSE when the root is reached.
RECURSIVE WalkUp(_, _, _)
WalkUp(nodes, current, depth) ==
    IF IsNone(NodeAt(nodes, current).parent)
    THEN [found |-> FALSE, current |-> current, depth |-> depth]
    ELSE IF Unwrap(NodeAt(nodes, Unwrap(NodeAt(nodes, current).parent)).right_child)
            # current
         THEN [found |-> TRUE, current |-> current, depth |-> depth]
         ELSE WalkUp(nodes, Unwrap(NodeAt(nodes, current).parent), depth + 1)

\* The loop of get_right_node_on_same_level that descends depth levels through
\* left children.
RECURSIVE WalkDownLeft(_, _, _)
WalkDownLeft(nodes, current, depth) ==
    IF depth > 0
    THEN WalkDownLeft(nodes, Unwrap(NodeAt(nodes, current).left_child), depth - 1)
    ELSE current

\* HuffmanTree::get_right_node_on_same_level
GetRightNodeOnSameLevel(nodes, node_index) ==
    IF IsNone(node_index) THEN None
    ELSE LET idx == Unwrap(node_index)
             node == NodeAt(nodes, idx)
         IN  IF IsNone(node.parent) THEN None
             ELSE LET parent == Unwrap(node.parent)
                      parent_node == NodeAt(nodes, parent)
                      is_parent_left_child ==
                          IF IsNone(parent_node.left_child) THEN FALSE
                          ELSE Unwrap(parent_node.left_child) = idx
                  IN  IF is_parent_left_child THEN parent_node.right_child
                      ELSE LET up == WalkUp(nodes, idx, 0)
                           IN  IF ~up.found THEN None
                               ELSE Some(WalkDownLeft(nodes,
                                        Unwrap(NodeAt(nodes,
                                            Unwrap(NodeAt(nodes, up.current).parent)
                                        ).right_child),
                                        up.depth))

\* The two `while !current.is_none()` loops of construct_tree: every node from
\* current to the right end of its level grows two empty children.
RECURSIVE GrowLevel(_, _)
GrowLevel(nodes, current) ==
    IF IsNone(current) THEN nodes
    ELSE LET grown == AddEmptyChilds(nodes, Unwrap(current))
         IN  GrowLevel(grown, GetRightNodeOnSameLevel(grown, current))

\* A builder state: the arena, the leftmost open node of the current level
\* and whether an unwrap() of None has panicked.
BuildState(nodes, leftmost_node, panicked) ==
    [nodes |-> nodes, leftmost_node |-> leftmost_node, panicked |-> panicked]

\* The `for symbol in &huffman_table[i]` loop of construct_tree, from the
\* k-th symbol of the slot on.  leftmost_node.unwrap() panics on None.
RECURSIVE AssignSymbols(_, _, _, _)
AssignSymbols(nodes, leftmost_node, symbols, k) ==
    IF k > Len(symbols) THEN BuildState(nodes, leftmost_node, FALSE)
    ELSE IF IsNone(leftmost_node) THEN BuildState(nodes, leftmost_node, TRUE)
    ELSE LET marked == [nodes EXCEPT ![Unwrap(leftmost_node) + 1].value = symbols[k],
                                     ![Unwrap(leftmost_node) + 1].valid_code = TRUE]
         IN  AssignSymbols(marked, GetRightNodeOnSameLevel(marked, leftmost_node),
                           symbols, k + 1)

\* The branch of construct_tree's loop body for a length without symbols.
EmptyLength(st) ==
    LET grown == GrowLevel(st.nodes, st.leftmost_node)
    IN  IF IsNone(st.leftmost_node) THEN BuildState(grown, None, TRUE)
        ELSE BuildState(grown,
                        NodeAt(grown, Unwrap(st.leftmost_node)).left_child, FALSE)

\* Mutation of SymbolLength: the nodes that grow children are taken from the
\* first open node of the level, not from the first node left unassigned.
SymbolLengthGrowsAssigned(st, symbols) ==
    LET a == AssignSymbols(st.nodes, st.leftmost_node, symbols, 1)
    IN  IF a.panicked THEN a
        ELSE IF IsNone(a.leftmost_node) THEN BuildState(a.nodes, None, TRUE)
        ELSE LET grown == GrowLevel(a.nodes, st.leftmost_node)
             IN  BuildState(grown,
                            NodeAt(grown, Unwrap(st.leftmost_node)).left_child, FALSE)

\* The branch of construct_tree's loop body for a length with symbols.
SymbolLength(st, symbols) ==
    LET a == AssignSymbols(st.nodes, st.leftmost_node, symbols, 1)
    IN  IF a.panicked THEN a
        ELSE IF IsNone(a.leftmost_node) THEN BuildState(a.nodes, None, TRUE)
        ELSE LET opened == AddEmptyChilds(a.nodes, Unwrap(a.leftmost_node))
                 current == GetRightNodeOnSameLevel(opened, a.leftmost_node)
                 next_leftmost == NodeAt(opened, Unwrap(a.leftmost_node)).left_child
             IN  BuildState(GrowLevel(opened, current), next_leftmost, FALSE)

\* One iteration of `for i in 0..16` in construct_tree, for the length i + 1.
ConstructLength(st, huffman_table, length) ==
    IF st.panicked THEN st
    ELSE IF SymbolCountOfLength(huffman_table, length) = 0
         THEN EmptyLength(st)
         ELSE SymbolLength(st, huffman_table[length])

RECURSIVE ConstructFrom(_, _, _)
ConstructFrom(st, huffman_table, length) ==
    IF length > CodeLengths THEN st
    ELSE ConstructFrom(ConstructLength(st, huffman_table, length),
                       huffman_table, length + 1)

\* HuffmanTree::construct_tree
ConstructTree(nodes, huffman_table) ==
    LET rooted == AddEmptyChilds(nodes, 0)
    IN  ConstructFrom(BuildState(rooted, NodeAt(rooted, 0).left_child, FALSE),
                      huffman_table, 1)

\* HuffmanTree::new: the tree, or panicked = TRUE when the call does not return
HuffmanTreeNew(huffman_table) ==
    LET st == ConstructTree(<<NewNode>>, huffman_table)
    IN  [panicked |-> st.panicked,
         nodes |-> IF st.panicked THEN <<>> ELSE st.nodes]

\* HuffmanTree::do_print_codes: the (code, value) lines printed, in order
RECURSIVE DoPrintCodes(_, _, _)
DoPrintCodes(nodes, node_index, code) ==
    IF node_index >= Len(nodes) THEN <<>>
    ELSE LET node == NodeAt(nodes, node_index)
         IN  (IF IsNone(node.left_child) THEN <<>>
              ELSE DoPrintCodes(nodes, Unwrap(node.left_child), code \o "0"))
             \o (IF node.valid_code THEN << <<code, node.value>> >> ELSE <<>>)
             \o (IF IsNone(node.right_child) THEN <<>>
                 ELSE DoPrintCodes(nodes, Unwrap(node.right_child), code \o "1"))

\* HuffmanTree::print_codes
PrintCodes(nodes) == DoPrintCodes(nodes, 0, "")


(***************************************************************************)
(* util.rs: the primitive readers.  A reader is a byte sequence and the    *)
(* number pos of bytes already consumed.  A failed read_exact is an        *)
(* UnexpectedEof I/O error.                                                *)
(***************************************************************************)

\* util::read_u8
ReadU8(bytes, pos) ==
    IF pos < Len(bytes)
    THEN [ok |-> TRUE, value |-> bytes[pos + 1], pos |-> pos + 1]
    ELSE [ok |-> FALSE, value |-> 0, pos |-> Len(bytes)]

\* util::u8s_be_to_u16
U8sBeToU16(msb, lsb) == msb * 256 + lsb

\* util::read_u16_be
ReadU16Be(bytes, pos) ==
    IF pos + 2 <= Len(bytes)
    THEN [ok |-> TRUE, value |-> U8sBeToU16(bytes[pos + 1], bytes[pos + 2]),
          pos |-> pos + 2]
    ELSE [ok |-> FALSE, value |-> 0, pos |-> Len(bytes)]

\* Read::read_exact into a buffer of n bytes
ReadExact(bytes, pos, n) ==
    IF pos + n <= Len(bytes)
    THEN [ok |-> TRUE, data |-> SubSeq(bytes, pos + 1, pos + n), pos |-> pos + n]
    ELSE [ok |-> FALSE, data |-> <<>>, pos |-> Len(bytes)]

\* decoder::skip_bytes: copies up to size bytes to a sink, fails when fewer came
SkipBytes(bytes, pos, size) ==
    LET copied == Min(size, Len(bytes) - pos)
    IN  [ok |-> ~(copied < size), pos |-> pos + copied]

(***************************************************************************)
(* marker.rs: the marker scanner                                           *)
(***************************************************************************)

\* A Marker value: its variant, the index n it carries (application segment,
\* start of frame) and its declared length (0 for the markers without one).
Marker(kind, n, size) == [kind |-> kind, n |-> n, size |-> size]
NoMarker == Marker("none", 0, 0)

\* A result of Marker::from_reader: err is "none" (Ok), "io" or "unsupported".
Scanned(err, marker, pos) == [err |-> err, marker |-> marker, pos |-> pos]

\* `while read_u8(reader)? != 0xff {}`: the position after the first 0xFF
RECURSIVE SkipToFF(_, _)
SkipToFF(bytes, pos) ==
    LET r == ReadU8(bytes, pos)
    IN  IF ~r.ok THEN r
        ELSE IF r.value # 255 THEN SkipToFF(bytes, r.pos)
        ELSE r

\* Mutation of SkipFill: the byte after the first 0xFF is taken as it is,
\* without the loop over further 0xFF bytes.
SkipFillOnce(bytes, pos) == ReadU8(bytes, pos)

\* `let mut byte = read_u8(reader)?; while byte == 0xff { byte = read_u8(reader)?; }`
RECURSIVE SkipFill(_, _)
SkipFill(bytes, pos) ==
    LET r == ReadU8(bytes, pos)
    IN  IF ~r.ok THEN r
        ELSE IF r.value = 255 THEN SkipFill(bytes, r.pos)
        ELSE r

\* A marker that carries a length: read_u16_be(reader)? follows the code.
WithLength(bytes, pos, kind, n) ==
    LET len == ReadU16Be(bytes, pos)
    IN  IF len.ok THEN Scanned("none", Marker(kind, n, len.value), len.pos)
        ELSE Scanned("io", NoMarker, len.pos)

\* The `match byte` of Marker::from_reader
MatchMarkerCode(bytes, pos, byte) ==
    CASE byte = 216 -> Scanned("none", Marker("StartOfImage", 0, 0), pos)
      [] byte \in 224..233 -> WithLength(bytes, pos, "ApplicationSegment", byte - 224)
      [] byte = 254 -> WithLength(bytes, pos, "Comment", 0)
      [] byte = 219 -> WithLength(bytes, pos, "DefineQuantizationTable", 0)
      [] byte = 192 -> WithLength(bytes, pos, "StartOfFrame", 0)
      [] byte = 196 -> WithLength(bytes, pos, "DefineHuffmanTable", 0)
      [] byte = 218 -> WithLength(bytes, pos, "StartOfScan", 0)
      [] byte = 217 -> Scanned("none", Marker("EndOfImage", 0, 0), pos)
      [] OTHER -> Scanned("unsupported", NoMarker, pos)

\* Marker::from_reader
RECURSIVE FromReader(_, _)
FromReader(bytes, pos) ==
    LET ff == SkipToFF(bytes, pos)
    IN  IF ~ff.ok THEN Scanned("io", NoMarker, ff.pos)
        ELSE LET b == SkipFill(bytes, ff.pos)
             IN  IF ~b.ok THEN Scanned("io", NoMarker, b.pos)
                 ELSE IF b.value # 0 /\ b.value # 255
                      THEN MatchMarkerCode(bytes, b.pos, b.value)
                      ELSE FromReader(bytes, b.pos)

(***************************************************************************)
(* decoder.rs: the segment parsers.  A parser result has a status: "ok"    *)
(* (Ok), "io" (Err(Error::Io), from a `?` on a short read) or "panic" (a   *)
(* failed assert!, an arithmetic overflow caught by the overflow checks).  *)
(***************************************************************************)

\* Size of one quantization table: `vec![0; 64]`
QuantizationTableSize == 64
\* Slots of the selector-indexed arrays `[Option<T>; 4]`
TableSlots == 4
\* Bytes skipped at the end of a scan header: `skip_bytes(&mut self.reader, 3)`
ScanHeaderTail == 3

\* Mutation of SubU16: the subtraction wraps in every build.
SubU16Wrapping(a, b, checks) ==
    [panicked |-> FALSE, value |-> (a - b + 65536) % 65536]

\* u16 subtraction `a - b`: with overflow checks an underflow panics,
\* without them it wraps.
SubU16(a, b, checks) ==
    IF a >= b THEN [panicked |-> FALSE, value |-> a - b]
    ELSE [panicked |-> checks, value |-> (a - b + 65536) % 65536]

\* u16 addition `a += b`: with overflow checks an overflow panics,
\* without them it wraps.
AddU16(a, b, checks) ==
    IF a + b <= 65535 THEN [panicked |-> FALSE, value |-> a + b]
    ELSE [panicked |-> checks, value |-> (a + b) % 65536]

Parsed(status, value, pos) == [status |-> status, value |-> value, pos |-> pos]

\* The `while bytes_read < size - 2` loop of parse_quantization_table
RECURSIVE QuantizationTableLoop(_, _, _, _, _, _)
QuantizationTableLoop(bytes, pos, limit, bytes_read, tables, checks) ==
    IF ~(bytes_read < limit) THEN Parsed("ok", tables, pos)
    ELSE LET info == ReadU8(bytes, pos)
             quantization_table_element_precision == (info.value \div 16) % 16
             quantization_table_destination_identifier == info.value % 16
             data == ReadExact(bytes, info.pos, QuantizationTableSize)
             counted == AddU16(bytes_read + 1,
                               QuantizationTableSize
                                 * (quantization_table_element_precision + 1),
                               checks)
         IN  IF ~info.ok THEN Parsed("io", tables, info.pos)
             ELSE IF quantization_table_element_precision # 0
                  THEN Parsed("panic", tables, info.pos)
             ELSE IF ~data.ok THEN Parsed("io", tables, data.pos)
             ELSE IF counted.panicked THEN Parsed("panic", tables, data.pos)
             ELSE QuantizationTableLoop(bytes, data.pos, limit, counted.value,
                      Append(tables,
                             <<quantization_table_destination_identifier, data.data>>),
                      checks)

\* Decoder::parse_quantization_table
ParseQuantizationTable(bytes, pos, size, checks) ==
    LET limit == SubU16(size, 2, checks)
    IN  IF limit.panicked THEN Parsed("panic", <<>>, pos)
        ELSE QuantizationTableLoop(bytes, pos, limit.value, 0, <<>>, checks)

\* The `for (i, numbers_of_huffman_codes) in ...enumerate()` loop of
\* parse_huffman_table: the symbols of each length, read one byte at a time,
\* each read counted in bytes_read.
RECURSIVE HuffmanValuesLoop(_, _, _, _, _, _, _)
HuffmanValuesLoop(bytes, pos, counts, i, huffman_table, bytes_read, checks) ==
    IF i > Len(counts)
    THEN [status |-> "ok", table |-> huffman_table, pos |-> pos,
          bytes_read |-> bytes_read]
    ELSE LET huffman_values == ReadExact(bytes, pos, counts[i])
             counted == AddU16(bytes_read, counts[i], checks)
         IN  IF ~huffman_values.ok
             THEN [status |-> "io", table |-> huffman_table,
                   pos |-> huffman_values.pos, bytes_read |-> bytes_read]
             ELSE IF counted.panicked
             THEN [status |-> "panic", table |-> huffman_table,
                   pos |-> huffman_values.pos, bytes_read |-> bytes_read]
             ELSE HuffmanValuesLoop(bytes, huffman_values.pos, counts, i + 1,
                      [huffman_table EXCEPT ![i] = huffman_values.data],
                      counted.value, checks)

\* `let mut huffman_table: HuffmanTable = Default::default()`
EmptyHuffmanTable == [i \in 1..CodeLengths |-> <<>>]

\* The `while bytes_read < (size - 2)` loop of parse_huffman_table
RECURSIVE HuffmanTableLoop(_, _, _, _, _, _)
HuffmanTableLoop(bytes, pos, limit, bytes_read, tables, checks) ==
    IF ~(bytes_read < limit) THEN Parsed("ok", tables, pos)
    ELSE LET table_info == ReadU8(bytes, pos)
             huffman_table_class == (table_info.value \div 16) % 16
             huffman_table_destination_identifier == table_info.value % 16
             numbers_of_huffman_codes_of_length ==
                 ReadExact(bytes, table_info.pos, CodeLengths)
             counted == AddU16(bytes_read + 1, CodeLengths, checks)
             values == HuffmanValuesLoop(bytes,
                           numbers_of_huffman_codes_of_length.pos,
                           numbers_of_huffman_codes_of_length.data, 1,
                           EmptyHuffmanTable, counted.value, checks)
         IN  IF ~table_info.ok THEN Parsed("io", tables, table_info.pos)
             ELSE IF ~numbers_of_huffman_codes_of_length.ok
                  THEN Parsed("io", tables, numbers_of_huffman_codes_of_length.pos)
             ELSE IF counted.panicked
                  THEN Parsed("panic", tables, numbers_of_huffman_codes_of_length.pos)
             ELSE IF values.status # "ok" THEN Parsed(values.status, tables, values.pos)
             ELSE HuffmanTableLoop(bytes, values.pos, limit, values.bytes_read,
                      Append(tables,
                             <<huffman_table_class,
                               huffman_table_destination_identifier,
                               values.table>>),
                      checks)

\* Decoder::parse_huffman_table
ParseHuffmanTable(bytes, pos, size, checks) ==
    LET limit == SubU16(size, 2, checks)
    IN  IF limit.panicked THEN Parsed("panic", <<>>, pos)
        ELSE HuffmanTableLoop(bytes, pos, limit.value, 0, <<>>, checks)

\* The `match n` of parse_frame_header
EncodingProcessOf(n) ==
    CASE n = 0 -> "BaselineDct"
      [] n = 1 -> "ExtendedSequentialDctHc"
      [] n = 2 -> "ProgressiveDctHc"
      [] n = 3 -> "LosslessHc"
      [] n = 9 -> "ExtendedSequentialDctHc"
      [] n = 10 -> "ProgressiveDctAc"
      [] n = 11 -> "LosslessAc"
      [] OTHER -> "Unknown"

EmptySlots == [i \in 1..TableSlots |-> None]

\* The `for i in 0..components_count` loop of parse_frame_header
RECURSIVE FrameComponentLoop(_, _, _, _, _)
FrameComponentLoop(bytes, pos, i, components_count, component_headers) ==
    IF ~(i < components_count) THEN Parsed("ok", component_headers, pos)
    ELSE LET id == ReadU8(bytes, pos)
             sampling_factor == ReadU8(bytes, id.pos)
             quantization_table_selector == ReadU8(bytes, sampling_factor.pos)
             component_header ==
                 [id |-> id.value,
                  horizontal_sampling_factor |-> (sampling_factor.value \div 16) % 16,
                  vertical_sampling_factor |-> sampling_factor.value % 16,
                  quantization_table_selector |-> quantization_table_selector.value]
         IN  IF ~id.ok THEN Parsed("io", component_headers, id.pos)
             ELSE IF ~sampling_factor.ok
                  THEN Parsed("io", component_headers, sampling_factor.pos)
             ELSE IF ~quantization_table_selector.ok
                  THEN Parsed("io", component_headers, quantization_table_selector.pos)
             ELSE IF ~(i < TableSlots)
                  THEN Parsed("panic", component_headers,
                              quantization_table_selector.pos)
             ELSE FrameComponentLoop(bytes, quantization_table_selector.pos, i + 1,
                      components_count,
                      [component_headers EXCEPT ![i + 1] = Some(component_header)])

\* Mutation of ParseFrameHeader: without `assert!(components_count == 3)`.
ParseFrameHeaderAnyCount(bytes, pos, n, size) ==
    LET precision == ReadU8(bytes, pos)
        max_lines == ReadU16Be(bytes, precision.pos)
        max_samples_per_line == ReadU16Be(bytes, max_lines.pos)
        components_count == ReadU8(bytes, max_samples_per_line.pos)
        components == FrameComponentLoop(bytes, components_count.pos, 0,
                                         components_count.value, EmptySlots)
    IN  IF ~precision.ok THEN Parsed("io", None, precision.pos)
        ELSE IF precision.value # 8 THEN Parsed("panic", None, precision.pos)
        ELSE IF ~max_lines.ok THEN Parsed("io", None, max_lines.pos)
        ELSE IF max_lines.value = 0 THEN Parsed("panic", None, max_lines.pos)
        ELSE IF ~max_samples_per_line.ok
             THEN Parsed("io", None, max_samples_per_line.pos)
        ELSE IF ~components_count.ok THEN Parsed("io", None, components_count.pos)
        ELSE IF components.status # "ok"
             THEN Parsed(components.status, None, components.pos)
        ELSE Parsed("ok",
                    [encoding_process |-> EncodingProcessOf(n),
                     precision |-> precision.value,
                     max_lines |-> max_lines.value,
                     max_samples_per_line |-> max_samples_per_line.value,
                     components_count |-> components_count.value,
                     component_headers |-> components.value],
                    components.pos)

\* Decoder::parse_frame_header (the declared size is not used)
ParseFrameHeader(bytes, pos, n, size) ==
    LET precision == ReadU8(bytes, pos)
        max_lines == ReadU16Be(bytes, precision.pos)
        max_samples_per_line == ReadU16Be(bytes, max_lines.pos)
        components_count == ReadU8(bytes, max_samples_per_line.pos)
        components == FrameComponentLoop(bytes, components_count.pos, 0,
                                         components_count.value, EmptySlots)
    IN  IF ~precision.ok THEN Parsed("io", None, precision.pos)
        ELSE IF precision.value # 8 THEN Parsed("panic", None, precision.pos)
        ELSE IF ~max_lines.ok THEN Parsed("io", None, max_lines.pos)
        ELSE IF max_lines.value = 0 THEN Parsed("panic", None, max_lines.pos)
        ELSE IF ~max_samples_per_line.ok
             THEN Parsed("io", None, max_samples_per_line.pos)
        ELSE IF ~components_count.ok THEN Parsed("io", None, components_count.pos)
        ELSE IF components_count.value # 3
             THEN Parsed("panic", None, components_count.pos)
        ELSE IF components.status # "ok"
             THEN Parsed(components.status, None, components.pos)
        ELSE Parsed("ok",
                    [encoding_process |-> EncodingProcessOf(n),
                     precision |-> precision.value,
                     max_lines |-> max_lines.value,
                     max_samples_per_line |-> max_samples_per_line.value,
                     components_count |-> components_count.value,
                     component_headers |-> components.value],
                    components.pos)

\* The `for i in 0..components_count` loop of parse_scan_header
RECURSIVE ScanComponentLoop(_, _, _, _, _)
ScanComponentLoop(bytes, pos, i, components_count, component_headers) ==
    IF ~(i < components_count) THEN Parsed("ok", component_headers, pos)
    ELSE LET scan_component_selector == ReadU8(bytes, pos)
             entropy_coding_table_selectors ==
                 ReadU8(bytes, scan_component_selector.pos)
             scan_component_header ==
                 [scan_component_selector |-> scan_component_selector.value,
                  dc_entropy_coding_table_selector |->
                      (entropy_coding_table_selectors.value \div 16) % 16,
                  ac_entropy_coding_table_selector |->
                      entropy_coding_table_selectors.value % 16]
         IN  IF ~scan_component_selector.ok
             THEN Parsed("io", component_headers, scan_component_selector.pos)
             ELSE IF ~entropy_coding_table_selectors.ok
                  THEN Parsed("io", component_headers,
                              entropy_coding_table_selectors.pos)
             ELSE ScanComponentLoop(bytes, entropy_coding_table_selectors.pos, i + 1,
                      components_count,
                      [component_headers EXCEPT ![i + 1] = Some(scan_component_header)])

\* Mutation of ParseScanHeader: without the skip of the 3 trailing bytes.
ParseScanHeaderNoTail(bytes, pos, size, frame_header) ==
    LET components_count == ReadU8(bytes, pos)
        components == ScanComponentLoop(bytes, components_count.pos, 0,
                                        components_count.value, EmptySlots)
    IN  IF ~components_count.ok THEN Parsed("io", None, components_count.pos)
        ELSE IF ~(0 < components_count.value /\ components_count.value < 4)
             THEN Parsed("panic", None, components_count.pos)
        ELSE IF components.status # "ok"
             THEN Parsed(components.status, None, components.pos)
        ELSE Parsed("ok",
                    [components_count |-> components_count.value,
                     component_headers |-> components.value],
                    components.pos)

\* Decoder::parse_scan_header (the declared size and the frame header are not used)
ParseScanHeader(bytes, pos, size, frame_header) ==
    LET components_count == ReadU8(bytes, pos)
        components == ScanComponentLoop(bytes, components_count.pos, 0,
                                        components_count.value, EmptySlots)
        skipped == SkipBytes(bytes, components.pos, ScanHeaderTail)
    IN  IF ~components_count.ok THEN Parsed("io", None, components_count.pos)
        ELSE IF ~(0 < components_count.value /\ components_count.value < 4)
             THEN Parsed("panic", None, components_count.pos)
        ELSE IF components.status # "ok"
             THEN Parsed(components.status, None, components.pos)
        ELSE IF ~skipped.ok THEN Parsed("io", None, skipped.pos)
        ELSE Parsed("ok",
                    [components_count |-> components_count.value,
                     component_headers |-> components.value],
                    skipped.pos)

\* Decoder::parse_comment: `vec![0; (size as usize) - 2]` then read_exact.  The
\* subtraction is in usize: an underflow panics with overflow checks, and
\* without them asks for a vector of 2^64 - 2 or 2^64 - 1 bytes, which panics
\* with a capacity overflow.
ParseComment(bytes, pos, size) ==
    IF size < 2 THEN Parsed("panic", None, pos)
    ELSE LET comment_raw == ReadExact(bytes, pos, size - 2)
         IN  IF comment_raw.ok THEN Parsed("ok", None, comment_raw.pos)
             ELSE Parsed("io", None, comment_raw.pos)

(***************************************************************************)
(* The state.                                                              *)
(*   stream           the bytes the byte source has supplied and the       *)
(*                    decoder has not read yet                             *)
(*   closed           the source has ended: a read beyond `stream` is an   *)
(*                    UnexpectedEof; until then it waits for more bytes    *)
(*   waiting          the decoder waits in a read for bytes the source     *)
(*                    has not supplied yet                                 *)
(*   fed, track       how many chunks the source has supplied, and how     *)
(*                    many of them are the well-formed stream's (-1 once   *)
(*                    the source left that stream)                         *)
(*   overflow_checks  whether the build checks arithmetic overflow         *)
(*   image            the Image of Decoder::parse                          *)
(*   result           "running" while parse loops, then what decode()      *)
(*                    gave: "ok", "parse", "io", "unsupported" (the Error  *)
(*                    variants) or "panic"                                 *)
(*   last             what the latest call of Marker::from_reader and the  *)
(*                    match arm after it did (history)                     *)
(*   table, tree      the argument and the result of HuffmanTree::new      *)
(*   shape            the parts of a byte stream given to from_reader      *)
(***************************************************************************)
VARIABLES stream, closed, waiting, fed, track, overflow_checks, image, result,
          last, table, tree, shape

vars == <<stream, closed, waiting, fed, track, overflow_checks, image, result,
          last, table, tree, shape>>

\* The Image literal at the head of Decoder::parse
NewImage ==
    [frame_header |-> None,
     scans |-> <<>>,
     quantization_tables |-> EmptySlots,
     dc_huffman_tables |-> EmptySlots,
     ac_huffman_tables |-> EmptySlots]

\* `for table in tables { image.quantization_tables[table.0 as usize] = Some(table.1); }`
\* from the k-th table on; an index beyond the array panics.
RECURSIVE StoreQuantizationTables(_, _, _)
StoreQuantizationTables(img, tables, k) ==
    IF k > Len(tables) THEN [panicked |-> FALSE, image |-> img]
    ELSE IF ~(tables[k][1] < TableSlots) THEN [panicked |-> TRUE, image |-> img]
    ELSE StoreQuantizationTables(
             [img EXCEPT !.quantization_tables[tables[k][1] + 1] = Some(tables[k][2])],
             tables, k + 1)

\* Mutation of StoreHuffmanTables: the test of the table class is inverted,
\* so that a DC table lands in the AC slots and an AC table in the DC slots.
RECURSIVE StoreHuffmanTablesSwapped(_, _, _)
StoreHuffmanTablesSwapped(img, table_infos, k) ==
    IF k > Len(table_infos) THEN [panicked |-> FALSE, image |-> img]
    ELSE LET built == HuffmanTreeNew(table_infos[k][3])
         IN  IF built.panicked THEN [panicked |-> TRUE, image |-> img]
             ELSE IF ~(table_infos[k][2] < TableSlots)
                  THEN [panicked |-> TRUE, image |-> img]
             ELSE IF table_infos[k][1] # 0
                  THEN StoreHuffmanTablesSwapped(
                           [img EXCEPT !.dc_huffman_tables[table_infos[k][2] + 1] =
                                           Some(built.nodes)],
                           table_infos, k + 1)
                  ELSE StoreHuffmanTablesSwapped(
                           [img EXCEPT !.ac_huffman_tables[table_infos[k][2] + 1] =
                                           Some(built.nodes)],
                           table_infos, k + 1)

\* `for table_info in table_infos { let tree = HuffmanTree::new(&table_info.2); ... }`
\* from the k-th table on; HuffmanTree::new may panic, and so may the index.
RECURSIVE StoreHuffmanTables(_, _, _)
StoreHuffmanTables(img, table_infos, k) ==
    IF k > Len(table_infos) THEN [panicked |-> FALSE, image |-> img]
    ELSE LET built == HuffmanTreeNew(table_infos[k][3])
         IN  IF built.panicked THEN [panicked |-> TRUE, image |-> img]
             ELSE IF ~(table_infos[k][2] < TableSlots)
                  THEN [panicked |-> TRUE, image |-> img]
             ELSE IF table_infos[k][1] = 0
                  THEN StoreHuffmanTables(
                           [img EXCEPT !.dc_huffman_tables[table_infos[k][2] + 1] =
                                           Some(built.nodes)],
                           table_infos, k + 1)
                  ELSE StoreHuffmanTables(
                           [img EXCEPT !.ac_huffman_tables[table_infos[k][2] + 1] =
                                           Some(built.nodes)],
                           table_infos, k + 1)

\* How a `?` on a parser result ends the iteration.
ResultOf(status) == IF status = "ok" THEN "running" ELSE status

\* What one iteration of the loop of Decoder::parse did: scanned is the result
\* of Marker::from_reader, and the match arm left the reader pos bytes into
\* `stream`, the image as img and the decode as res; parsed tells whether a
\* segment parser returned Ok, and yielded how many tables it returned.
Done(scanned, p, img, res, parsed, yielded) ==
    [scanned |-> scanned, pos |-> p, image |-> img, result |-> res,
     parsed |-> parsed, yielded |-> yielded]

\* `Ok(Marker::StartOfImage) => println!(...)`
StartOfImageArm(m) == Done(m, m.pos, image, "running", FALSE, 0)

\* `Ok(Marker::ApplicationSegment(n, size)) => skip_bytes(&mut self.reader, size - 2)?`
ApplicationSegmentArm(m) ==
    LET payload == SubU16(m.marker.size, 2, overflow_checks)
        skipped == SkipBytes(stream, m.pos, payload.value)
    IN  IF payload.panicked THEN Done(m, m.pos, image, "panic", FALSE, 0)
        ELSE Done(m, skipped.pos, image, IF skipped.ok THEN "running" ELSE "io",
                  skipped.ok, 0)

\* `Ok(Marker::Comment(size)) => self.parse_comment(size)?`
CommentArm(m) ==
    LET comment == ParseComment(stream, m.pos, m.marker.size)
    IN  Done(m, comment.pos, image, ResultOf(comment.status),
             comment.status = "ok", 0)

\* `Ok(Marker::DefineQuantizationTable(size)) => ...`
DefineQuantizationTableArm(m) ==
    LET tables == ParseQuantizationTable(stream, m.pos, m.marker.size,
                                         overflow_checks)
        stored == StoreQuantizationTables(image, tables.value, 1)
    IN  IF tables.status # "ok"
        THEN Done(m, tables.pos, image, tables.status, FALSE, 0)
        ELSE Done(m, tables.pos, stored.image,
                  IF stored.panicked THEN "panic" ELSE "running", TRUE,
                  Len(tables.value))

\* `Ok(Marker::StartOfFrame(n, size)) => image.frame_header = Some(...)`
StartOfFrameArm(m) ==
    LET header == ParseFrameHeader(stream, m.pos, m.marker.n, m.marker.size)
    IN  IF header.status # "ok"
        THEN Done(m, header.pos, image, header.status, FALSE, 0)
        ELSE Done(m, header.pos, [image EXCEPT !.frame_header = Some(header.value)],
                  "running", TRUE, 0)

\* `Ok(Marker::DefineHuffmanTable(size)) => ...`
DefineHuffmanTableArm(m) ==
    LET table_infos == ParseHuffmanTable(stream, m.pos, m.marker.size,
                                         overflow_checks)
        stored == StoreHuffmanTables(image, table_infos.value, 1)
    IN  IF table_infos.status # "ok"
        THEN Done(m, table_infos.pos, image, table_infos.status, FALSE, 0)
        ELSE Done(m, table_infos.pos, stored.image,
                  IF stored.panicked THEN "panic" ELSE "running", TRUE,
                  Len(table_infos.value))

\* Mutation of StartOfScanArm: the scan header is parsed whether or not a
\* frame header is stored.
StartOfScanArmUnchecked(m) ==
    LET scan_header == ParseScanHeader(stream, m.pos, m.marker.size,
                                       image.frame_header)
    IN  IF scan_header.status # "ok"
        THEN Done(m, scan_header.pos, image, scan_header.status, FALSE, 0)
        ELSE Done(m, scan_header.pos,
                  [image EXCEPT !.scans = Append(@, [scan_header |-> scan_header.value])],
                  "running", TRUE, 0)

\* `Ok(Marker::StartOfScan(size)) => ...`: image.frame_header.as_ref().unwrap()
\* is evaluated before parse_scan_header is called; decode_scan does nothing.
StartOfScanArm(m) ==
    LET scan_header == ParseScanHeader(stream, m.pos, m.marker.size,
                                       image.frame_header)
    IN  IF IsNone(image.frame_header) THEN Done(m, m.pos, image, "panic", FALSE, 0)
        ELSE IF scan_header.status # "ok"
        THEN Done(m, scan_header.pos, image, scan_header.status, FALSE, 0)
        ELSE Done(m, scan_header.pos,
                  [image EXCEPT !.scans = Append(@, [scan_header |-> scan_header.value])],
                  "running", TRUE, 0)

\* Mutation of EndOfImageArm: the loop goes on after the marker.
EndOfImageArmContinues(m) == Done(m, m.pos, image, "running", FALSE, 0)

\* `Ok(Marker::EndOfImage) => break`, then `Ok(())` and decode's `Ok(Vec::new())`
EndOfImageArm(m) == Done(m, m.pos, image, "ok", FALSE, 0)

\* `Err(_) => return Err(Error::Parse("Non allowed marker found"))`
MarkerErrorArm(m) == Done(m, m.pos, image, "parse", FALSE, 0)

\* `let marker = Marker::from_reader(&mut self.reader)`
NextMarker == FromReader(stream, 0)

\* The iteration read beyond the bytes supplied so far: every Error::Io of
\* the readers is an UnexpectedEof.
RanShort(o) == o.scanned.err = "io" \/ o.result = "io"

\* The loop of Decoder::parse is at a call of Marker::from_reader that
\* returns a marker of the given kind.
Takes(kind) ==
    /\ result = "running"
    /\ ~waiting
    /\ NextMarker.err = "none"
    /\ NextMarker.marker.kind = kind

NoLast ==
    [scan_err |-> "none", marker |-> NoMarker, marker_len |-> 0, consumed |-> 0,
     input |-> <<>>, parsed |-> FALSE, yielded |-> 0, before |-> NewImage]

\* The history of an iteration: the bytes it started on (input), how many of
\* them the scanner read (marker_len) and the arm after it (consumed), and
\* the image before it.
LastOf(o) ==
    [scan_err |-> o.scanned.err, marker |-> o.scanned.marker,
     marker_len |-> o.scanned.pos, consumed |-> o.pos - o.scanned.pos,
     input |-> stream, parsed |-> o.parsed, yielded |-> o.yielded,
     before |-> image]

\* The iteration takes effect.
Commit(o) ==
    /\ stream' = SubSeq(stream, o.pos + 1, Len(stream))
    /\ image' = o.image
    /\ result' = o.result
    /\ last' = LastOf(o)
    /\ UNCHANGED <<closed, waiting, fed, track, overflow_checks, table, tree, shape>>

\* The iteration needs bytes the source has not supplied: the read waits.
Wait ==
    /\ waiting' = TRUE
    /\ UNCHANGED <<stream, closed, fed, track, overflow_checks, image, result,
                   last, table, tree, shape>>

\* One iteration of the loop: on the bytes supplied if they are enough or the
\* source has ended, and else when the source has supplied more.
Iterate(o) == IF ~closed /\ RanShort(o) THEN Wait ELSE Commit(o)

\* One action per arm of the match in Decoder::parse: the call of
\* Marker::from_reader and the arm of the marker it returned.
OnStartOfImage == Takes("StartOfImage") /\ Iterate(StartOfImageArm(NextMarker))
OnApplicationSegment ==
    Takes("ApplicationSegment") /\ Iterate(ApplicationSegmentArm(NextMarker))
OnComment == Takes("Comment") /\ Iterate(CommentArm(NextMarker))
OnDefineQuantizationTable ==
    Takes("DefineQuantizationTable")
    /\ Iterate(DefineQuantizationTableArm(NextMarker))
OnStartOfFrame == Takes("StartOfFrame") /\ Iterate(StartOfFrameArm(NextMarker))
OnDefineHuffmanTable ==
    Takes("DefineHuffmanTable") /\ Iterate(DefineHuffmanTableArm(NextMarker))
OnStartOfScan == Takes("StartOfScan") /\ Iterate(StartOfScanArm(NextMarker))
OnEndOfImage == Takes("EndOfImage") /\ Iterate(EndOfImageArm(NextMarker))
OnMarkerError ==
    /\ result = "running"
    /\ ~waiting
    /\ NextMarker.err # "none"
    /\ Iterate(MarkerErrorArm(NextMarker))

(***************************************************************************)
(* The byte source: it supplies the stream chunk by chunk, as the decoder  *)
(* asks for bytes, and ends at any point.                                  *)
(***************************************************************************)
U16Be(n) == <<n \div 256, n % 256>>
Repeat(b, n) == [i \in 1..n |-> b]

RECURSIVE Flatten(_)
Flatten(seqs) ==
    IF seqs = <<>> THEN <<>> ELSE Head(seqs) \o Flatten(Tail(seqs))

\* A marker with the code `code`, a length field declaring `declared`, and a payload
Declaring(code, declared, payload) == <<255, code>> \o U16Be(declared) \o payload
\* A segment whose length field counts itself and the payload
Segment(code, payload) == Declaring(code, Len(payload) + 2, payload)

\* One record of a DQT segment: the info byte and 64 coefficients
QuantRecord(precision, id, coefficient) ==
    <<precision * 16 + id>> \o Repeat(coefficient, QuantizationTableSize)

\* One record of a DHT segment: the info byte, one count per code length, the symbols
HuffmanRecord(class, id, slots) ==
    <<class * 16 + id>>
    \o [i \in 1..CodeLengths |-> IF i <= Len(slots) THEN Len(slots[i]) ELSE 0]
    \o Flatten(slots)

\* The payload of a frame header with `count` in its component-count byte
\* and 3 component records
FramePayload(precision, lines, samples, count, selector) ==
    <<precision>> \o U16Be(lines) \o U16Be(samples) \o <<count>>
    \o Flatten([i \in 1..3 |-> <<i, 17, selector>>])

\* The payload of a scan header with `count` in its component-count byte,
\* `records` component records and the 3 trailing bytes
ScanPayload(count, records, selectors) ==
    <<count>> \o Flatten([i \in 1..records |-> <<i, selectors>>]) \o <<0, 63, 0>>

SOI == <<255, 216>>
EOI == <<255, 217>>
DQT0 == Segment(219, QuantRecord(0, 0, 1))
SOF0 == Segment(192, FramePayload(8, 1, 1, 3, 0))
DHT0 == Segment(196, HuffmanRecord(0, 0, << <<5>> >>))
SOS0 == Segment(218, ScanPayload(3, 3, 0))

\* SOI, DQT, SOF0, DHT, SOS, EOI: the well-formed stream of the end-to-end test
BaselineChunks == <<SOI, DQT0, SOF0, DHT0, SOS0, EOI>>
BaselineStream == Flatten(BaselineChunks)

\* The chunks the source supplies.
Menu ==
    { SOI, EOI, DQT0, SOF0, DHT0, SOS0,
      \* an end of image with bytes after it
      EOI \o <<0>> \o SOI,
      \* application segment, comments (one declaring length 1)
      Segment(224, <<74, 70>>),
      Segment(254, <<65>>),
      Declaring(254, 1, <<>>),
      \* two quantization tables in one segment; element precision 1;
      \* one table under a declared length of 3
      Segment(219, QuantRecord(0, 0, 2) \o QuantRecord(0, 1, 3)),
      Segment(219, QuantRecord(1, 0, 1)),
      Declaring(219, 3, QuantRecord(0, 1, 1)),
      \* frame headers: component count 2, precision 12, no lines,
      \* another geometry under a declared length of 20
      Segment(192, FramePayload(8, 1, 1, 2, 0)),
      Segment(192, FramePayload(12, 1, 1, 3, 0)),
      Segment(192, FramePayload(8, 0, 1, 3, 0)),
      Declaring(192, 20, FramePayload(8, 2, 2, 3, 1)),
      \* Huffman tables: an AC and a DC table in one segment; a complete code
      Segment(196, HuffmanRecord(1, 1, << <<1>>, <<2>> >>)
                   \o HuffmanRecord(0, 1, << <<>>, <<3, 4>> >>)),
      Segment(196, HuffmanRecord(0, 0, << <<1, 2>> >>)),
      \* scan headers: one component; component count 0 and 4
      Segment(218, ScanPayload(1, 1, 17)),
      Segment(218, ScanPayload(0, 0, 0)),
      Segment(218, ScanPayload(4, 4, 0)),
      \* selectors beyond 3: in a frame component, in a scan component, and
      \* as the destination of a quantization table and of a Huffman table
      Segment(192, FramePayload(8, 1, 1, 3, 7)),
      Segment(218, ScanPayload(1, 1, 69)),
      Segment(219, QuantRecord(0, 5, 1)),
      Segment(196, HuffmanRecord(1, 4, << <<1>> >>)),
      \* segments declaring a length of 0 or 1, each with a payload behind
      Declaring(224, 0, <<74, 70>>),
      Declaring(254, 0, <<65>>),
      Declaring(219, 1, QuantRecord(0, 0, 1)),
      Declaring(196, 0, HuffmanRecord(0, 0, << <<5>> >>)),
      Declaring(192, 1, FramePayload(8, 1, 1, 3, 0)),
      Declaring(218, 0, ScanPayload(3, 3, 0)),
      \* a marker code outside the table, a fill byte, a stuffed 0xFF and a stray byte
      <<255, 193>>, <<255>>, <<255, 0, 65>> }

NoTree == [built |-> FALSE, panicked |-> FALSE, nodes |-> <<>>]
NoShape == [junk |-> <<>>, fill |-> 0, code |-> 0, rest |-> <<>>]

\* Decoder::new(reader), at the entry of decode()
Init ==
    /\ stream = <<>>
    /\ closed = FALSE
    /\ waiting = FALSE
    /\ fed = 0
    /\ track = 0
    /\ overflow_checks \in BOOLEAN
    /\ image = NewImage
    /\ result = "running"
    /\ last = NoLast
    /\ table = EmptyHuffmanTable
    /\ tree = NoTree
    /\ shape = NoShape

\* The part of the well-formed stream the source has supplied so far goes on
\* with this chunk.
OnTrack(chunk) ==
    /\ track >= 0
    /\ track < Len(BaselineChunks)
    /\ chunk = BaselineChunks[track + 1]

\* The source supplies one more chunk to the waiting decoder: any chunk while
\* it has supplied fewer than MaxChunks, and the next chunk of the well-formed
\* stream at any time.
Feed ==
    /\ waiting
    /\ \E chunk \in Menu :
          /\ fed < MaxChunks \/ OnTrack(chunk)
          /\ stream' = stream \o chunk
          /\ track' = IF OnTrack(chunk) THEN track + 1 ELSE -1
    /\ fed' = fed + 1
    /\ waiting' = FALSE
    /\ UNCHANGED <<closed, overflow_checks, image, result, last, table, tree, shape>>

\* Where the source may end inside a chunk: after one of its first MaxCut
\* bytes, or before its last byte.
CutPoints(chunk) ==
    { k \in 1..(Len(chunk) - 1) : k <= MaxCut \/ k = Len(chunk) - 1 }

\* The source supplies a part of one more chunk and ends.
CutShort ==
    /\ waiting
    /\ \E chunk \in Menu :
          /\ fed < MaxChunks \/ OnTrack(chunk)
          /\ \E k \in CutPoints(chunk) :
                stream' = stream \o SubSeq(chunk, 1, k)
    /\ closed' = TRUE
    /\ waiting' = FALSE
    /\ track' = -1
    /\ UNCHANGED <<fed, overflow_checks, image, result, last, table, tree, shape>>

\* The source ends.
Close ==
    /\ waiting
    /\ closed' = TRUE
    /\ waiting' = FALSE
    /\ track' = -1
    /\ UNCHANGED <<stream, fed, overflow_checks, image, result, last, table,
                   tree, shape>>

Next ==
    \/ OnStartOfImage
    \/ OnApplicationSegment
    \/ OnComment
    \/ OnDefineQuantizationTable
    \/ OnStartOfFrame
    \/ OnDefineHuffmanTable
    \/ OnStartOfScan
    \/ OnEndOfImage
    \/ OnMarkerError
    \/ Feed
    \/ CutShort
    \/ Close

\* Decoder::decode on every stream the source can supply
Spec == Init /\ [][Next]_vars

(***************************************************************************)
(* HuffmanTree::new on its own, on generated raw tables.                   *)
(***************************************************************************)
\* First symbol values of the generated tables; the symbols of a table are
\* consecutive u8 values from there on, in slot order.
FirstSymbols == {0, 254}

RECURSIVE SumTo(_, _)
SumTo(counts, n) == IF n = 0 THEN 0 ELSE counts[n] + SumTo(counts, n - 1)

\* The raw table with counts[l] symbols in slot l
TableOf(counts, first) ==
    [l \in 1..CodeLengths |->
        [k \in 1..counts[l] |-> (first + SumTo(counts, l - 1) + k - 1) % 256]]

Tables ==
    { TableOf(counts, first) :
        counts \in [1..CodeLengths -> 0..MaxCount], first \in FirstSymbols }

InitTree ==
    /\ table \in Tables
    /\ tree = NoTree
    /\ stream = <<>>
    /\ closed = TRUE
    /\ waiting = FALSE
    /\ fed = 0
    /\ track = -1
    /\ overflow_checks = TRUE
    /\ image = NewImage
    /\ result = "none"
    /\ last = NoLast
    /\ shape = NoShape

\* `HuffmanTree::new(&table)`
BuildTree ==
    /\ ~tree.built
    /\ LET built == HuffmanTreeNew(table)
       IN  tree' = [built |-> TRUE, panicked |-> built.panicked, nodes |-> built.nodes]
    /\ UNCHANGED <<stream, closed, waiting, fed, track, overflow_checks, image,
                   result, last, table, shape>>

NextTree == BuildTree

SpecTree == InitTree /\ [][NextTree]_vars

(***************************************************************************)
(* Marker::from_reader on its own: one call on a stream made of stray      *)
(* bytes, a run of 0xFF bytes, one more byte and what follows it.          *)
(***************************************************************************)
\* Stray bytes: none of them 0xFF
JunkBytes == {0, 65, 216}
\* The bytes after the 0xFF run: every code of the match, and three others
CodeBytes == {216, 217, 254, 219, 192, 196, 218} \cup (224..233) \cup {193, 1, 208}
\* What follows the code
Rests == { <<>>, <<0>>, <<0, 2>>, <<1, 67, 255, 217>> }

SeqsUpTo(S, n) == UNION { [1..k -> S] : k \in 0..n }

ShapeStream(sh) == sh.junk \o Repeat(255, sh.fill) \o <<sh.code>> \o sh.rest

InitScanner ==
    /\ shape \in [junk : SeqsUpTo(JunkBytes, MaxJunk), fill : 1..MaxFill,
                  code : CodeBytes, rest : Rests]
    /\ stream = ShapeStream(shape)
    /\ closed = TRUE
    /\ waiting = FALSE
    /\ fed = 0
    /\ track = -1
    /\ overflow_checks = TRUE
    /\ image = NewImage
    /\ result = "none"
    /\ last = NoLast
    /\ table = EmptyHuffmanTable
    /\ tree = NoTree

\* `Marker::from_reader(&mut reader)`
CallFromReader ==
    /\ result = "none"
    /\ LET scanned == FromReader(stream, 0)
       IN  /\ stream' = SubSeq(stream, scanned.pos + 1, Len(stream))
           /\ last' = [NoLast EXCEPT !.scan_err = scanned.err,
                                     !.marker = scanned.marker,
                                     !.marker_len = scanned.pos,
                                     !.input = stream]
    /\ result' = "scanned"
    /\ UNCHANGED <<closed, waiting, fed, track, overflow_checks, image, table,
                   tree, shape>>

NextScanner == CallFromReader

SpecScanner == InitScanner /\ [][NextScanner]_vars

(***************************************************************************)
(* Properties of HuffmanTree::new, checked under SpecTree.                 *)
(***************************************************************************)
Pow2(n) == 2 ^ n

\* The raw table respects the Kraft inequality over its CodeLengths levels:
\* the sum over l of count[l] * 2^(-l) is at most 1.
RECURSIVE KraftSum(_, _)
KraftSum(huffman_table, l) ==
    IF l = 0 THEN 0
    ELSE Len(huffman_table[l]) * Pow2(CodeLengths - l) + KraftSum(huffman_table, l - 1)

RespectsKraft(huffman_table) ==
    KraftSum(huffman_table, CodeLengths) <= Pow2(CodeLengths)

NodeIndices(nodes) == 0..(Len(nodes) - 1)

RECURSIVE Depth(_, _)
Depth(nodes, i) ==
    IF IsNone(NodeAt(nodes, i).parent) THEN 0
    ELSE 1 + Depth(nodes, Unwrap(NodeAt(nodes, i).parent))

RECURSIVE Ancestors(_, _)
Ancestors(nodes, i) ==
    IF IsNone(NodeAt(nodes, i).parent) THEN {}
    ELSE {Unwrap(NodeAt(nodes, i).parent)}
         \cup Ancestors(nodes, Unwrap(NodeAt(nodes, i).parent))

ValidLeaves(nodes) == { i \in NodeIndices(nodes) : NodeAt(nodes, i).valid_code }
ValidLeavesAt(nodes, l) == { i \in ValidLeaves(nodes) : Depth(nodes, i) = l }

Range(seq) == { seq[k] : k \in 1..Len(seq) }

\* The valid leaves at depth l carry exactly the symbols of slot l.
LeavesReproduceSlot(nodes, huffman_table, l) ==
    /\ { NodeAt(nodes, i).value : i \in ValidLeavesAt(nodes, l) } = Range(huffman_table[l])
    /\ Cardinality(ValidLeavesAt(nodes, l)) = Len(huffman_table[l])

PrefixFree(nodes) ==
    \A i \in ValidLeaves(nodes) : Ancestors(nodes, i) \cap ValidLeaves(nodes) = {}

\* C1: for every raw table whose counts respect the Kraft inequality (equality
\* included), HuffmanTree::new returns a tree in which the valid leaves at
\* each depth l carry exactly the symbols of slot l, and no valid leaf is an
\* ancestor of another valid leaf.
C1_KraftTableBuildsTree ==
    (tree.built /\ RespectsKraft(table)) =>
        /\ ~tree.panicked
        /\ \A l \in 1..CodeLengths : LeavesReproduceSlot(tree.nodes, table, l)
        /\ PrefixFree(tree.nodes)

\* The code of length l with the value code, most significant bit first
RECURSIVE Bits(_, _)
Bits(code, l) ==
    IF l = 0 THEN ""
    ELSE Bits(code \div 2, l - 1) \o (IF code % 2 = 0 THEN "0" ELSE "1")

\* The canonical code of a raw table: codes are handed out shortest first, in
\* slot order, each the successor of the one before, doubled at each new length.
RECURSIVE CanonicalFrom(_, _, _, _)
CanonicalFrom(huffman_table, l, k, code) ==
    IF l > CodeLengths THEN <<>>
    ELSE IF k > Len(huffman_table[l])
         THEN CanonicalFrom(huffman_table, l + 1, 1, code * 2)
         ELSE << <<Bits(code, l), huffman_table[l][k]>> >>
              \o CanonicalFrom(huffman_table, l, k + 1, code + 1)

CanonicalCodes(huffman_table) == CanonicalFrom(huffman_table, 1, 1, 0)

\* A table of one slot of 4 symbols at length 2, and one of 1 symbol at
\* length 1 and 1 symbol at length 2
IsFourAtLengthTwo(huffman_table) ==
    \A l \in 1..CodeLengths : Len(huffman_table[l]) = (IF l = 2 THEN 4 ELSE 0)
IsOneAndOne(huffman_table) ==
    \A l \in 1..CodeLengths : Len(huffman_table[l]) = (IF l <= 2 THEN 1 ELSE 0)

\* C5: the builder assigns codes left to right, shortest first, so the codes
\* printed by the in-order traversal are the canonical ones; 4 symbols
\* {A,B,C,D} at length 2 get "00", "01", "10", "11", and 1 symbol at length 1
\* with 1 symbol at length 2 get "0" and "10".
C5_CodesAreCanonical ==
    tree.built =>
        /\ RespectsKraft(table) =>
              /\ ~tree.panicked
              /\ PrintCodes(tree.nodes) = CanonicalCodes(table)
        /\ IsFourAtLengthTwo(table) =>
              /\ ~tree.panicked
              /\ PrintCodes(tree.nodes) =
                    << <<"00", table[2][1]>>, <<"01", table[2][2]>>,
                       <<"10", table[2][3]>>, <<"11", table[2][4]>> >>
        /\ IsOneAndOne(table) =>
              /\ ~tree.panicked
              /\ PrintCodes(tree.nodes) = << <<"0", table[1][1]>>, <<"10", table[2][1]>> >>

IsInternal(node) ==
    /\ ~IsNone(node.left_child)
    /\ ~IsNone(node.right_child)
    /\ ~node.valid_code
IsChildless(node) == IsNone(node.left_child) /\ IsNone(node.right_child)
IsValidLeaf(node) == IsChildless(node) /\ node.valid_code
IsUnassigned(node) == IsChildless(node) /\ ~node.valid_code

RootIsNodeZero(nodes) ==
    \A i \in NodeIndices(nodes) : IsNone(NodeAt(nodes, i).parent) <=> (i = 0)

\* C6 as claimed: in every tree returned by HuffmanTree::new node 0 is the
\* root and every node is either internal (two children, not valid) or a
\* valid leaf (no children, valid, one symbol); no node is childless and not
\* valid.
C6_InternalOrValidLeaf ==
    (tree.built /\ ~tree.panicked) =>
        /\ RootIsNodeZero(tree.nodes)
        /\ \A i \in NodeIndices(tree.nodes) :
              IsInternal(NodeAt(tree.nodes, i)) \/ IsValidLeaf(NodeAt(tree.nodes, i))

\* C6 as amended: in every tree returned by HuffmanTree::new node 0 is the
\* root and every node is internal (two children, not valid), a valid leaf
\* (no children, valid, carrying one symbol of the table) or an unassigned
\* node (no children, not valid); no node has exactly one child, no valid
\* node has children, and the unassigned nodes are the nodes one level below
\* the longest code length.
C6_InternalValidOrUnassigned ==
    (tree.built /\ ~tree.panicked) =>
        /\ RootIsNodeZero(tree.nodes)
        /\ \A i \in NodeIndices(tree.nodes) :
              LET node == NodeAt(tree.nodes, i)
              IN  /\ IsInternal(node) \/ IsValidLeaf(node) \/ IsUnassigned(node)
                  /\ IsValidLeaf(node) =>
                        node.value \in UNION { Range(table[l]) : l \in 1..CodeLengths }
                  /\ IsUnassigned(node) <=> (Depth(tree.nodes, i) = CodeLengths + 1)

\* A returned tree with a valid leaf, an internal node below the root and an
\* unassigned node.
C6_Witness ==
    /\ tree.built
    /\ ~tree.panicked
    /\ \E i, j, k \in NodeIndices(tree.nodes) :
          /\ IsValidLeaf(NodeAt(tree.nodes, i))
          /\ IsInternal(NodeAt(tree.nodes, j)) /\ j # 0
          /\ IsUnassigned(NodeAt(tree.nodes, k))

(***************************************************************************)
(* Properties of Decoder::decode, checked under Spec.                      *)
(***************************************************************************)
OtherSlotsEmpty(slots, kept) ==
    \A i \in 1..TableSlots : i \notin kept => IsNone(slots[i])

\* The source has supplied the whole well-formed stream.
BaselineSupplied == track = Len(BaselineChunks)

\* C2: decoding the well-formed stream SOI, DQT, SOF0, DHT, SOS, EOI goes on
\* without a failure through every chunk, up to the EndOfImage marker, and
\* returns success, and then all of it is read and the image holds a frame header with component count 3,
\* quantization slot 0 equal to 64 ones, DC Huffman slot 0 holding a tree
\* with exactly one valid leaf, of code "0", and one Scan record; all other
\* table slots are empty.
C2_BaselineStreamDecodes ==
    /\ track >= 0 => result \in {"running", "ok"}
    /\ (track >= 0 /\ result = "ok") => BaselineSupplied
    /\ (BaselineSupplied /\ result = "running") =>
          /\ stream = EOI
          /\ ENABLED OnEndOfImage
    /\ (BaselineSupplied /\ result = "ok") =>
          /\ stream = <<>>
          /\ ~IsNone(image.frame_header)
          /\ Unwrap(image.frame_header).components_count = 3
          /\ image.quantization_tables[1] = Some(Repeat(1, QuantizationTableSize))
          /\ ~IsNone(image.dc_huffman_tables[1])
          /\ Cardinality(ValidLeaves(Unwrap(image.dc_huffman_tables[1]))) = 1
          /\ PrintCodes(Unwrap(image.dc_huffman_tables[1])) = << <<"0", 5>> >>
          /\ Len(image.scans) = 1
          /\ OtherSlotsEmpty(image.quantization_tables, {1})
          /\ OtherSlotsEmpty(image.dc_huffman_tables, {1})
          /\ OtherSlotsEmpty(image.ac_huffman_tables, {})

\* The well-formed stream has been decoded with success.
C2_Witness == BaselineSupplied /\ result = "ok"

\* The bytes the latest segment parser consumed after the length field, and
\* the payload length the marker declared (in u16 arithmetic)
Consumed == last.consumed
DeclaredPayload == (last.marker.size - 2 + 65536) % 65536
LastParsed(kind) ==
    last.scan_err = "none" /\ last.marker.kind = kind /\ last.parsed

\* The k-th byte after the latest marker (and its length field), if supplied
HasByte(k) == last.marker_len + k <= Len(last.input)
PayloadByte(k) == last.input[last.marker_len + k]

ParserKinds ==
    {"DefineQuantizationTable", "DefineHuffmanTable", "StartOfFrame", "StartOfScan"}

HuffmanRecordSize(k) ==
    1 + CodeLengths + SumTo([i \in 1..CodeLengths |-> PayloadByte(k + i)], CodeLengths)

\* The number of bytes up to the end of the first DHT record, from the one
\* after k bytes on, that ends at or beyond `payload` bytes
RECURSIVE HuffmanBoundary(_, _)
HuffmanBoundary(k, payload) ==
    IF k >= payload THEN k
    ELSE HuffmanBoundary(k + HuffmanRecordSize(k + 1), payload)

\* The least multiple of the DQT record size (65) at or beyond `payload`
QuantBoundary(payload) ==
    (QuantizationTableSize + 1)
        * ((payload + QuantizationTableSize) \div (QuantizationTableSize + 1))

C4_ScannerFailureKindReachesCaller ==
    /\ last.scan_err = "unsupported" => result = "unsupported"
    /\ last.scan_err = "io" => result = "io"

\* The latest iteration scanned a marker of the given kind.
LastMarker(kind) == last.scan_err = "none" /\ last.marker.kind = kind

\* C8: decode returns success if and only if the scanner yields EndOfImage
\* before any failure: the loop goes on after every other marker, stops at
\* the first EndOfImage and reads no byte past that marker.
C8_SuccessIffEndOfImage ==
    /\ (result = "ok") <=> LastMarker("EndOfImage")
    /\ result = "ok" =>
          /\ last.consumed = 0
          /\ last.marker_len >= 2
          /\ last.input[last.marker_len - 1] = 255
          /\ last.input[last.marker_len] = 217
          /\ stream = SubSeq(last.input, last.marker_len + 1, Len(last.input))
          /\ ~waiting
          /\ ~ENABLED Next
    /\ (last.scan_err = "none" /\ last.parsed) => result \in {"running", "panic"}
    /\ LastMarker("StartOfImage") => result = "running"

\* decode has returned success after other markers, with bytes left unread.
C8_Witness ==
    /\ result = "ok"
    /\ stream # <<>>
    /\ ~IsNone(image.frame_header)

\* The segment after the latest marker violates an asserted invariant: a
\* frame header with precision # 8, max lines = 0 or component count # 3, a
\* scan header (met while a frame header is stored, so that its parser runs)
\* with component count outside 1..3, a quantization table (one the parser's
\* loop reaches) with element precision # 0.
OffendingSegment ==
    /\ last.scan_err = "none"
    /\ CASE last.marker.kind = "StartOfFrame" ->
                \/ HasByte(1) /\ PayloadByte(1) # 8
                \/ HasByte(3) /\ U8sBeToU16(PayloadByte(2), PayloadByte(3)) = 0
                \/ HasByte(6) /\ PayloadByte(6) # 3
         [] last.marker.kind = "StartOfScan" ->
                /\ ~IsNone(last.before.frame_header)
                /\ HasByte(1) /\ PayloadByte(1) \notin 1..3
         [] last.marker.kind = "DefineQuantizationTable" ->
                \E k \in 0..Len(last.input) :
                    /\ k * (QuantizationTableSize + 1) < DeclaredPayload
                    /\ HasByte(k * (QuantizationTableSize + 1) + 1)
                    /\ PayloadByte(k * (QuantizationTableSize + 1) + 1) \div 16 # 0
         [] OTHER -> FALSE

\* C9: a segment that violates an asserted invariant aborts the whole decode:
\* decode does not return success and the offending header or table is not
\* stored in the image.
C9_OffendingSegmentAborts ==
    OffendingSegment =>
        /\ result = "panic"
        /\ ~ENABLED Next
        /\ image = last.before

\* A frame header with component count 2 has been met after a quantization
\* table was stored.
C9_Witness ==
    /\ OffendingSegment
    /\ last.marker.kind = "StartOfFrame"
    /\ HasByte(6)
    /\ PayloadByte(1) = 8
    /\ PayloadByte(6) = 2
    /\ ~IsNone(image.quantization_tables[1])

\* C10: if StartOfScan is scanned while no frame header is stored, the decode
\* fails: it does not return success, no byte of the scan header is read and
\* no Scan record is appended.
C10_ScanWithoutFrameFails ==
    (LastMarker("StartOfScan") /\ IsNone(last.before.frame_header)) =>
        /\ result = "panic"
        /\ ~ENABLED Next
        /\ last.consumed = 0
        /\ image.scans = <<>>
        /\ image = last.before

\* StartOfScan has been scanned with no frame header stored and a well-formed
\* scan header behind it.
C10_Witness ==
    /\ LastMarker("StartOfScan")
    /\ IsNone(last.before.frame_header)
    /\ HasByte(1) /\ PayloadByte(1) = 3
    /\ HasByte(10)
    /\ result = "panic"

\* C11: the frame header is created once and is immutable thereafter: once a
\* frame header is stored in the image, no later iteration of the loop (a
\* further StartOfFrame included) replaces or modifies it.
C11_FrameHeaderImmutable ==
    ~IsNone(last.before.frame_header) =>
        image.frame_header = last.before.frame_header

\* What the code keeps of C11: only a StartOfFrame whose header parses
\* changes the stored frame header.
C11_OnlyStartOfFrameReplaces ==
    image.frame_header # last.before.frame_header => LastParsed("StartOfFrame")

\* The selectors the image stores: the quantization-table selector of every
\* frame component, and the DC and AC entropy-table selectors of every scan
\* component
FrameSelectors(img) ==
    IF IsNone(img.frame_header) THEN {}
    ELSE { Unwrap(h).quantization_table_selector :
             h \in { c \in Range(Unwrap(img.frame_header).component_headers) :
                       ~IsNone(c) } }
ScanSelectors(img) ==
    UNION { { Unwrap(h).dc_entropy_coding_table_selector,
              Unwrap(h).ac_entropy_coding_table_selector } :
            h \in UNION { { c \in Range(img.scans[k].scan_header.component_headers) :
                              ~IsNone(c) } : k \in 1..Len(img.scans) } }

\* The first record of the table segment after the latest marker names a
\* destination beyond 3.
TableIdOutOfRange ==
    /\ LastMarker("DefineQuantizationTable") \/ LastMarker("DefineHuffmanTable")
    /\ last.marker.size > 2
    /\ HasByte(1)
    /\ PayloadByte(1) % 16 > 3

\* The part of C12 about table destinations: a table whose destination
\* identifier is beyond 3 is not stored, the decode ends there.
C12_TableIdsRejected ==
    TableIdOutOfRange =>
        /\ result \notin {"running", "ok"}
        /\ image = last.before

\* C12: selector values are always checked against the range 0..3: every
\* frame component's quantization-table selector and every scan component's
\* DC/AC entropy-table selector stored in the image lies in 0..3, and a table
\* with a destination identifier outside 0..3 is rejected, not stored.
C12_SelectorsInRange ==
    /\ FrameSelectors(image) \subseteq 0..3
    /\ ScanSelectors(image) \subseteq 0..3
    /\ C12_TableIdsRejected

\* The segments whose payload length is computed as declared length - 2
UnderflowKinds ==
    {"ApplicationSegment", "Comment", "DefineQuantizationTable",
     "DefineHuffmanTable"}

\* The latest marker is of one of these kinds and declares a length of 0 or 1.
DeclaresLessThanTwo ==
    /\ \E kind \in UnderflowKinds : LastMarker(kind)
    /\ last.marker.size < 2

\* C13: an application, comment, quantization-table or Huffman-table segment
\* that declares a length of 0 or 1 is never accepted as a segment with an
\* empty payload: declared length - 2 underflows, and with arithmetic
\* overflow checks enabled the decode aborts before it consumes a payload
\* byte (a comment aborts so in every build).  Frame and scan header parsing
\* ignore the declared length: a well-formed header under a declared length
\* of 0 or 1 is parsed and stored as under any other.
C13_ShortLengthUnderflows ==
    /\ DeclaresLessThanTwo =>
          /\ ~last.parsed
          /\ (overflow_checks \/ LastMarker("Comment")) =>
                /\ result = "panic"
                /\ last.consumed = 0
                /\ stream = SubSeq(last.input, last.marker_len + 1, Len(last.input))
                /\ image = last.before
                /\ ~ENABLED Next
    /\ (/\ LastMarker("StartOfFrame")
        /\ last.marker.size < 2
        /\ HasByte(15)
        /\ ~OffendingSegment) =>
          /\ last.parsed
          /\ last.consumed = 15
          /\ result = "running"
          /\ ~IsNone(image.frame_header)
          /\ Unwrap(image.frame_header).max_lines =
                U8sBeToU16(PayloadByte(2), PayloadByte(3))
          /\ Unwrap(image.frame_header).max_samples_per_line =
                U8sBeToU16(PayloadByte(4), PayloadByte(5))
    /\ (/\ LastMarker("StartOfScan")
        /\ last.marker.size < 2
        /\ ~IsNone(last.before.frame_header)
        /\ HasByte(1)
        /\ PayloadByte(1) \in 1..3
        /\ HasByte(1 + 2 * PayloadByte(1) + ScanHeaderTail)) =>
          /\ last.parsed
          /\ last.consumed = 1 + 2 * PayloadByte(1) + ScanHeaderTail
          /\ result = "running"
          /\ Len(image.scans) = Len(last.before.scans) + 1

\* A Huffman-table segment declaring length 0, with a table behind it, has
\* aborted the decode of a build with overflow checks after a frame header
\* declaring length 1 was stored.
C13_Witness ==
    /\ overflow_checks
    /\ LastMarker("DefineHuffmanTable")
    /\ last.marker.size = 0
    /\ HasByte(1)
    /\ result = "panic"
    /\ ~IsNone(image.frame_header)
    /\ Unwrap(image.frame_header).max_lines = 1

(***************************************************************************)
(* Properties of Marker::from_reader, checked under SpecScanner.           *)
(***************************************************************************)
\* The marker of a code of the table, with the declared length in `rest`
CarriesLength(code) == code \in {254, 219, 192, 196, 218} \cup (224..233)
RecognizedCodes == {216, 217, 254, 219, 192, 196, 218} \cup (224..233)
MarkerOfCode(code, rest) ==
    LET size == IF CarriesLength(code) THEN rest[1] * 256 + rest[2] ELSE 0
    IN  CASE code = 216 -> Marker("StartOfImage", 0, 0)
          [] code = 217 -> Marker("EndOfImage", 0, 0)
          [] code \in 224..233 -> Marker("ApplicationSegment", code - 224, size)
          [] code = 254 -> Marker("Comment", 0, size)
          [] code = 219 -> Marker("DefineQuantizationTable", 0, size)
          [] code = 192 -> Marker("StartOfFrame", 0, size)
          [] code = 196 -> Marker("DefineHuffmanTable", 0, size)
          [] code = 218 -> Marker("StartOfScan", 0, size)

\* C7: on a stream of non-0xFF bytes, then one or more 0xFF bytes, then a
\* recognized marker code c, one call of Marker::from_reader returns exactly
\* the marker of c and consumes exactly those bytes, plus the two length
\* bytes when c carries a length; FF FF FF D8 yields one StartOfImage.
C7_FillBytesAbsorbed ==
    (/\ result = "scanned"
     /\ shape.code \in RecognizedCodes
     /\ CarriesLength(shape.code) => Len(shape.rest) >= 2) =>
        /\ last.scan_err = "none"
        /\ last.marker = MarkerOfCode(shape.code, shape.rest)
        /\ last.marker_len = Len(shape.junk) + shape.fill + 1
                             + (IF CarriesLength(shape.code) THEN 2 ELSE 0)
        /\ stream = SubSeq(last.input, last.marker_len + 1, Len(last.input))

\* FF FF FF D8, with bytes after it, has been scanned as StartOfImage.
C7_Witness ==
    /\ result = "scanned"
    /\ shape.junk = <<>> /\ shape.fill = 3 /\ shape.code = 216 /\ shape.rest # <<>>
    /\ last.marker.kind = "StartOfImage"
    /\ last.marker_len = 4
    /\ stream = shape.rest

=============================================================================
